---------------------------- MODULE Spec2Model ----------------------------
(***************************************************************************)
(* Model of the card store of pokemon-tcg (src/stores/card.js): a Pinia    *)
(* store whose four asynchronous actions (select, getSet, getRarity,       *)
(* getType) build a request, await the HTTP client and return either the   *)
(* response body or a fixed empty fallback, toggling the shared isLoading  *)
(* flag around the call.                                                   *)
(*                                                                         *)
(* JavaScript runs each handler to its await without interruption, so an   *)
(* invocation is two atomic steps: the part up to `await apiClient.get`    *)
(* and the part after it (return / catch / finally).  Between them the     *)
(* HTTP client settles the request.  Strings are sequences of one-         *)
(* character strings so that replaceAll, join and the template literals    *)
(* are computed character by character.                                    *)
(***************************************************************************)
EXTENDS Integers, Sequences, FiniteSets, TLC

VARIABLES cards, isLoading, name, set, rarity, type, calls, NUXT_APP_BASE_URL

vars == <<cards, isLoading, name, set, rarity, type, calls, NUXT_APP_BASE_URL>>

state == <<cards, isLoading, name, set, rarity, type>>

-----------------------------------------------------------------------------
(* Bounds of the model *)

\* invocations started in one behaviour of Spec
MaxCalls == 2

\* characters in the four filter texts of one select call of SpecQuery, taken
\* together
MaxLen == 4

\* largest page number passed to select
MaxPage == 2

-----------------------------------------------------------------------------
(* Strings *)

RECURSIVE replaceAll_FirstOnly(_, _, _)
\* String.prototype.replace with a string pattern: the first match only
replaceAll_FirstOnly(s, pattern, replacement) ==
    IF s = <<>> THEN <<>>
    ELSE IF Head(s) = pattern THEN replacement \o Tail(s)
    ELSE <<Head(s)>> \o replaceAll_FirstOnly(Tail(s), pattern, replacement)

RECURSIVE replaceAll(_, _, _)
\* String.prototype.replaceAll with a one-character pattern
replaceAll(s, pattern, replacement) ==
    IF s = <<>> THEN <<>>
    ELSE (IF Head(s) = pattern THEN replacement ELSE <<Head(s)>>)
         \o replaceAll(Tail(s), pattern, replacement)

RECURSIVE join_DefaultSeparator(_, _)
\* join called without its argument: the separator is ","
join_DefaultSeparator(arr, sep) ==
    IF arr = <<>> THEN <<>>
    ELSE IF Len(arr) = 1 THEN arr[1]
    ELSE arr[1] \o <<",">> \o join_DefaultSeparator(Tail(arr), sep)

RECURSIVE join(_, _)
\* Array.prototype.join
join(arr, sep) ==
    IF arr = <<>> THEN <<>>
    ELSE IF Len(arr) = 1 THEN arr[1]
    ELSE arr[1] \o sep \o join(Tail(arr), sep)

Digits == <<"0", "1", "2", "3", "4", "5", "6", "7", "8", "9">>

RECURSIVE NumberToString(_)
\* `${n}` of a non-negative integer: its decimal digits
NumberToString(n) ==
    IF n < 10 THEN <<Digits[n + 1]>>
    ELSE NumberToString(n \div 10) \o <<Digits[(n % 10) + 1]>>

IsPrefix(p, s) == Len(p) <= Len(s) /\ SubSeq(s, 1, Len(p)) = p

\* the string literals of select
CardsPagePrefix == <<"/", "c", "a", "r", "d", "s", "?", "p", "a", "g", "e", "=">>
PageSizeInfix == <<"&", "p", "a", "g", "e", "S", "i", "z", "e", "=">>
Ampersand == <<"&">>
NamePrefix == <<"n", "a", "m", "e", ":">>
SetPrefix == <<"s", "e", "t", ".", "n", "a", "m", "e", ":">>
RarityPrefix == <<"r", "a", "r", "i", "t", "y", ":">>
TypesPrefix == <<"t", "y", "p", "e", "s", ":">>
QPrefix == <<"q", "=">>
AndSeparator == <<" ", "A", "N", "D", " ">>
Space == " "
Star == <<"*">>

-----------------------------------------------------------------------------
(* Arguments: an argument is <<>> when the caller omits it (undefined) and  *)
(* <<v>> when the caller passes v                                          *)

Absent == <<>>

Given(v) == <<v>>

\* a default parameter value `x = d`: d replaces undefined only
Default(arg, d) == IF arg = Absent THEN d ELSE arg[1]

\* JavaScript truthiness of a string
Truthy(s) == s # <<>>

-----------------------------------------------------------------------------
(* The remote API and the HTTP client *)

\* runtimeConfig.public of the application: nuxt.config.ts declares no
\* runtimeConfig, and the framework takes from the environment only the keys
\* the configuration declares, so the object has no pokemonTcgApiKey entry
RuntimeConfigPublic == [x \in {} |-> <<>>]

\* the apiKey getter: config.public.pokemonTcgApiKey (undefined when missing)
apiKey ==
    IF "pokemonTcgApiKey" \in DOMAIN RuntimeConfigPublic
    THEN Given(RuntimeConfigPublic["pokemonTcgApiKey"])
    ELSE Absent

\* bodies the remote API may send with a 2xx status for /cards
CardPayloads == { [data |-> <<"xy7-54", "base1-4">>, totalCount |-> 7, count |-> 2] }

\* bodies the remote API may send with a 2xx status for /sets, /rarities, /types
ListPayloads == { [data |-> <<"Rare Holo", "Common">>] }

\* a 2xx body that is not a page or listing (no data member)
MalformedPayloads == { [html |-> "<html>Bad Gateway</html>"] }

\* an error body sent with a non-2xx status
ErrorPayloads == { [error |-> [message |-> "Bad Request", code |-> 400]] }

\* what comes back for a request: no response at all (transport failure) or
\* a response with a status and a body
Wire(op) ==
    { [response |-> Absent, message |-> "Network Error"] }
    \cup { [response |-> Given([status |-> 200, data |-> d]), message |-> ""] :
             d \in (IF op = "select" THEN CardPayloads ELSE ListPayloads)
                   \cup MalformedPayloads }
    \cup { [response |-> Given([status |-> st, data |-> d]),
            message |-> "Request failed with status code"] :
             st \in {400}, d \in ErrorPayloads }

\* axios default validateStatus: the promise of get is fulfilled for 2xx only
validateStatus(status) == status >= 200 /\ status < 300

\* the promise of apiClient.get is fulfilled with the response, or rejected
\* with an error carrying the response (if any) and a message
Fulfilled(w) == w.response # Absent /\ validateStatus(w.response[1].status)

\* error.response?.data || error.message
ErrorDetail(error) ==
    IF error.response # Absent THEN error.response[1].data ELSE error.message

\* app.baseURL of nuxt.config.ts for a value of the environment variable
\* NUXT_APP_BASE_URL (Absent when the variable is not set)
baseURL(env) == "/poekemon-tcg/"

\* the environment the site is built in: NUXT_APP_BASE_URL not set (local
\* development), or set to a repository path by the deployment workflow
BuildEnvironments == {Absent, Given("/pokemon-tcg/"), Given("/")}

-----------------------------------------------------------------------------
(* The store *)

\* state: () => ({ cards: [], isLoading: false, name: "", ... })
Init ==
    /\ cards = <<>>
    /\ isLoading = FALSE
    /\ name = <<>>
    /\ set = <<>>
    /\ rarity = <<>>
    /\ type = <<>>
    /\ calls = <<>>
    /\ NUXT_APP_BASE_URL = Absent

\* the store of a site built in any of the build environments
InitBuild ==
    /\ cards = <<>>
    /\ isLoading = FALSE
    /\ name = <<>>
    /\ set = <<>>
    /\ rarity = <<>>
    /\ type = <<>>
    /\ calls = <<>>
    /\ NUXT_APP_BASE_URL \in BuildEnvironments

\* the name clause pushed without its `if (name)` guard
PathQuery_Unguarded(l_name, l_set, l_rarity, l_type) ==
    <<NamePrefix \o replaceAll(l_name, Space, Star) \o Star>>
    \o (IF Truthy(l_set)
        THEN <<SetPrefix \o replaceAll(l_set, Space, Star) \o Star>> ELSE <<>>)
    \o (IF Truthy(l_rarity)
        THEN <<RarityPrefix \o replaceAll(l_rarity, Space, Star) \o Star>> ELSE <<>>)
    \o (IF Truthy(l_type)
        THEN <<TypesPrefix \o replaceAll(l_type, Space, Star)>> ELSE <<>>)

\* the types clause built like the other three, with a trailing `*`
PathQuery_TypeWildcard(l_name, l_set, l_rarity, l_type) ==
    (IF Truthy(l_name)
     THEN <<NamePrefix \o replaceAll(l_name, Space, Star) \o Star>> ELSE <<>>)
    \o (IF Truthy(l_set)
        THEN <<SetPrefix \o replaceAll(l_set, Space, Star) \o Star>> ELSE <<>>)
    \o (IF Truthy(l_rarity)
        THEN <<RarityPrefix \o replaceAll(l_rarity, Space, Star) \o Star>> ELSE <<>>)
    \o (IF Truthy(l_type)
        THEN <<TypesPrefix \o replaceAll(l_type, Space, Star) \o Star>> ELSE <<>>)

\* the pathQuery array of select after the four pushes
PathQuery(l_name, l_set, l_rarity, l_type) ==
    (IF Truthy(l_name)
     THEN <<NamePrefix \o replaceAll(l_name, Space, Star) \o Star>> ELSE <<>>)
    \o (IF Truthy(l_set)
        THEN <<SetPrefix \o replaceAll(l_set, Space, Star) \o Star>> ELSE <<>>)
    \o (IF Truthy(l_rarity)
        THEN <<RarityPrefix \o replaceAll(l_rarity, Space, Star) \o Star>> ELSE <<>>)
    \o (IF Truthy(l_type)
        THEN <<TypesPrefix \o replaceAll(l_type, Space, Star)>> ELSE <<>>)

\* q appended without the `pathQuery.length > 0` test
Path_AlwaysQ(l_page, l_pageSize, pathQuery) ==
    CardsPagePrefix \o NumberToString(l_page) \o PageSizeInfix
    \o NumberToString(l_pageSize) \o Ampersand
    \o QPrefix \o join(pathQuery, AndSeparator)

\* a pagination parameter left out when its value is 0
Path_SkipZero(l_page, l_pageSize, pathQuery) ==
    <<"/", "c", "a", "r", "d", "s", "?">>
    \o (IF l_page # 0
        THEN <<"p", "a", "g", "e", "=">> \o NumberToString(l_page) \o Ampersand
        ELSE <<>>)
    \o (IF l_pageSize # 0
        THEN <<"p", "a", "g", "e", "S", "i", "z", "e", "=">>
             \o NumberToString(l_pageSize) \o Ampersand
        ELSE <<>>)
    \o (IF Len(pathQuery) > 0
        THEN QPrefix \o join(pathQuery, AndSeparator) ELSE <<>>)

\* the path of select: pagination, then q only when a clause was pushed
Path(l_page, l_pageSize, pathQuery) ==
    CardsPagePrefix \o NumberToString(l_page) \o PageSizeInfix
    \o NumberToString(l_pageSize) \o Ampersand
    \o (IF Len(pathQuery) > 0
        THEN QPrefix \o join(pathQuery, AndSeparator) ELSE <<>>)

\* the request handed to apiClient.get; a header whose value is undefined
\* (Absent) carries no key
Request(path) == [path |-> path, headers |-> [XApiKey |-> apiKey]]

\* an invocation suspended at its await
Suspended(op, args, pathQuery, path) ==
    [op |-> op, pc |-> "await", args |-> args, pathQuery |-> pathQuery,
     requests |-> <<Request(path)>>, settled |-> Absent,
     result |-> Absent, logged |-> <<>>]

\* select aborting the requests still in flight before it issues its own
select_Abort(page, pageSize, a_name, a_set, a_rarity, a_type) ==
    LET l_page == Default(page, 0)
        l_pageSize == Default(pageSize, 0)
        l_name == Default(a_name, <<>>)
        l_set == Default(a_set, <<>>)
        l_rarity == Default(a_rarity, <<>>)
        l_type == Default(a_type, <<>>)
        pathQuery == PathQuery(l_name, l_set, l_rarity, l_type)
        path == Path(l_page, l_pageSize, pathQuery)
        args == [page |-> l_page, pageSize |-> l_pageSize, name |-> l_name,
                 set |-> l_set, rarity |-> l_rarity, type |-> l_type,
                 passed |-> <<page, pageSize, a_name, a_set, a_rarity, a_type>>]
        aborted == [j \in DOMAIN calls |->
                      IF calls[j].pc = "done" THEN calls[j]
                      ELSE [calls[j] EXCEPT
                              !.pc = "settled",
                              !.settled = Given([response |-> Absent,
                                                 message |-> "canceled"])]]
    IN  /\ isLoading' = TRUE
        /\ name' = IF Truthy(l_name) THEN l_name ELSE name
        /\ set' = IF Truthy(l_set) THEN l_set ELSE set
        /\ rarity' = IF Truthy(l_rarity) THEN l_rarity ELSE rarity
        /\ type' = IF Truthy(l_type) THEN l_type ELSE type
        /\ calls' = Append(aborted, Suspended("select", args, pathQuery, path))
        /\ UNCHANGED <<cards, NUXT_APP_BASE_URL>>

\* select keeping the text it sends (spaces replaced) instead of the raw value
select_EchoTransformed(page, pageSize, a_name, a_set, a_rarity, a_type) ==
    LET l_page == Default(page, 0)
        l_pageSize == Default(pageSize, 0)
        l_name == Default(a_name, <<>>)
        l_set == Default(a_set, <<>>)
        l_rarity == Default(a_rarity, <<>>)
        l_type == Default(a_type, <<>>)
        pathQuery == PathQuery(l_name, l_set, l_rarity, l_type)
        path == Path(l_page, l_pageSize, pathQuery)
        args == [page |-> l_page, pageSize |-> l_pageSize, name |-> l_name,
                 set |-> l_set, rarity |-> l_rarity, type |-> l_type,
                 passed |-> <<page, pageSize, a_name, a_set, a_rarity, a_type>>]
    IN  /\ isLoading' = TRUE
        /\ name' = IF Truthy(l_name) THEN replaceAll(l_name, Space, Star) ELSE name
        /\ set' = IF Truthy(l_set) THEN replaceAll(l_set, Space, Star) ELSE set
        /\ rarity' = IF Truthy(l_rarity) THEN replaceAll(l_rarity, Space, Star)
                     ELSE rarity
        /\ type' = IF Truthy(l_type) THEN replaceAll(l_type, Space, Star) ELSE type
        /\ calls' = Append(calls, Suspended("select", args, pathQuery, path))
        /\ UNCHANGED <<cards, NUXT_APP_BASE_URL>>

\* select assigning the four filter fields without the `if` around them
select_EchoAlways(page, pageSize, a_name, a_set, a_rarity, a_type) ==
    LET l_page == Default(page, 0)
        l_pageSize == Default(pageSize, 0)
        l_name == Default(a_name, <<>>)
        l_set == Default(a_set, <<>>)
        l_rarity == Default(a_rarity, <<>>)
        l_type == Default(a_type, <<>>)
        pathQuery == PathQuery(l_name, l_set, l_rarity, l_type)
        path == Path(l_page, l_pageSize, pathQuery)
        args == [page |-> l_page, pageSize |-> l_pageSize, name |-> l_name,
                 set |-> l_set, rarity |-> l_rarity, type |-> l_type,
                 passed |-> <<page, pageSize, a_name, a_set, a_rarity, a_type>>]
    IN  /\ isLoading' = TRUE
        /\ name' = l_name
        /\ set' = l_set
        /\ rarity' = l_rarity
        /\ type' = l_type
        /\ calls' = Append(calls, Suspended("select", args, pathQuery, path))
        /\ UNCHANGED <<cards, NUXT_APP_BASE_URL>>

\* select up to `await apiClient.get(path, ...)`
select(page, pageSize, a_name, a_set, a_rarity, a_type) ==
    LET l_page == Default(page, 0)
        l_pageSize == Default(pageSize, 0)
        l_name == Default(a_name, <<>>)
        l_set == Default(a_set, <<>>)
        l_rarity == Default(a_rarity, <<>>)
        l_type == Default(a_type, <<>>)
        pathQuery == PathQuery(l_name, l_set, l_rarity, l_type)
        path == Path(l_page, l_pageSize, pathQuery)
        args == [page |-> l_page, pageSize |-> l_pageSize, name |-> l_name,
                 set |-> l_set, rarity |-> l_rarity, type |-> l_type,
                 passed |-> <<page, pageSize, a_name, a_set, a_rarity, a_type>>]
    IN  /\ isLoading' = TRUE
        /\ name' = IF Truthy(l_name) THEN l_name ELSE name
        /\ set' = IF Truthy(l_set) THEN l_set ELSE set
        /\ rarity' = IF Truthy(l_rarity) THEN l_rarity ELSE rarity
        /\ type' = IF Truthy(l_type) THEN l_type ELSE type
        /\ calls' = Append(calls, Suspended("select", args, pathQuery, path))
        /\ UNCHANGED <<cards, NUXT_APP_BASE_URL>>

\* a list action that clears the filter fields before it issues its request
ListStart_ClearFilters(op, path) ==
    /\ isLoading' = TRUE
    /\ name' = <<>>
    /\ set' = <<>>
    /\ rarity' = <<>>
    /\ type' = <<>>
    /\ calls' = Append(calls, Suspended(op, <<>>, <<>>, path))
    /\ UNCHANGED <<cards, NUXT_APP_BASE_URL>>

\* a list action up to its await: getSet, getRarity, getType differ in the path
ListStart(op, path) ==
    /\ isLoading' = TRUE
    /\ calls' = Append(calls, Suspended(op, <<>>, <<>>, path))
    /\ UNCHANGED <<cards, name, set, rarity, type, NUXT_APP_BASE_URL>>

getSet == ListStart("getSet", <<"/", "s", "e", "t", "s">>)

getRarity == ListStart("getRarity", <<"/", "r", "a", "r", "i", "t", "i", "e", "s">>)

getType == ListStart("getType", <<"/", "t", "y", "p", "e", "s">>)

\* the HTTP client settles the pending request of invocation i
Settle(i) ==
    /\ calls[i].pc = "await"
    /\ \E w \in Wire(calls[i].op) :
          calls' = [calls EXCEPT ![i].pc = "settled", ![i].settled = Given(w)]
    /\ UNCHANGED <<state, NUXT_APP_BASE_URL>>

\* isLoading reset after the await inside the try block instead of in finally
Resume_NoFinally(i, op, label, fallback) ==
    /\ calls[i].op = op
    /\ calls[i].pc = "settled"
    /\ LET w == calls[i].settled[1]
       IN  /\ calls' = [calls EXCEPT
                          ![i].pc = "done",
                          ![i].result =
                              IF Fulfilled(w) THEN Given(w.response[1].data)
                              ELSE Given(fallback),
                          ![i].logged =
                              IF Fulfilled(w) THEN @
                              ELSE Append(@, [label |-> label,
                                              detail |-> ErrorDetail(w)])]
           /\ isLoading' = IF Fulfilled(w) THEN FALSE ELSE isLoading
    /\ UNCHANGED <<cards, name, set, rarity, type, NUXT_APP_BASE_URL>>

\* `return response` instead of `return response.data`
Resume_WholeResponse(i, op, label, fallback) ==
    /\ calls[i].op = op
    /\ calls[i].pc = "settled"
    /\ LET w == calls[i].settled[1]
       IN  calls' = [calls EXCEPT
                       ![i].pc = "done",
                       ![i].result =
                           IF Fulfilled(w) THEN Given(w.response[1])
                           ELSE Given(fallback),
                       ![i].logged =
                           IF Fulfilled(w) THEN @
                           ELSE Append(@, [label |-> label,
                                           detail |-> ErrorDetail(w)])]
    /\ isLoading' = FALSE
    /\ UNCHANGED <<cards, name, set, rarity, type, NUXT_APP_BASE_URL>>

\* a handler that issues its request a second time when the first one fails
Resume_RetryOnce(i, op, label, fallback) ==
    /\ calls[i].op = op
    /\ calls[i].pc = "settled"
    /\ LET w == calls[i].settled[1]
           retry == ~Fulfilled(w) /\ Len(calls[i].requests) = 1
       IN  /\ calls' = [calls EXCEPT
                          ![i].pc = IF retry THEN "await" ELSE "done",
                          ![i].requests = IF retry THEN Append(@, @[1]) ELSE @,
                          ![i].settled = IF retry THEN Absent ELSE @,
                          ![i].result =
                              IF retry THEN @
                              ELSE IF Fulfilled(w) THEN Given(w.response[1].data)
                              ELSE Given(fallback),
                          ![i].logged =
                              IF Fulfilled(w) THEN @
                              ELSE Append(@, [label |-> label,
                                              detail |-> ErrorDetail(w)])]
           /\ isLoading' = IF retry THEN isLoading ELSE FALSE
    /\ UNCHANGED <<cards, name, set, rarity, type, NUXT_APP_BASE_URL>>

\* the rest of a handler after its await: return response.data, or the catch
\* block (log, return the fallback); then the finally block
Resume(i, op, label, fallback) ==
    /\ calls[i].op = op
    /\ calls[i].pc = "settled"
    /\ LET w == calls[i].settled[1]
       IN  calls' = [calls EXCEPT
                       ![i].pc = "done",
                       ![i].result =
                           IF Fulfilled(w) THEN Given(w.response[1].data)
                           ELSE Given(fallback),
                       ![i].logged =
                           IF Fulfilled(w) THEN @
                           ELSE Append(@, [label |-> label,
                                           detail |-> ErrorDetail(w)])]
    /\ isLoading' = FALSE
    /\ UNCHANGED <<cards, name, set, rarity, type, NUXT_APP_BASE_URL>>

\* select keeping the cards of a page in the store before it returns them
selectResume_StoreCards(i) ==
    /\ calls[i].op = "select"
    /\ calls[i].pc = "settled"
    /\ LET w == calls[i].settled[1]
           stored == Fulfilled(w) /\ "data" \in DOMAIN w.response[1].data
       IN  /\ calls' = [calls EXCEPT
                          ![i].pc = "done",
                          ![i].result =
                              IF Fulfilled(w) THEN Given(w.response[1].data)
                              ELSE Given([data |-> <<>>, totalCount |-> 0,
                                          count |-> 0]),
                          ![i].logged =
                              IF Fulfilled(w) THEN @
                              ELSE Append(@, [label |-> "API Error:",
                                              detail |-> ErrorDetail(w)])]
           /\ cards' = IF stored THEN w.response[1].data.data ELSE cards
    /\ isLoading' = FALSE
    /\ UNCHANGED <<name, set, rarity, type, NUXT_APP_BASE_URL>>

\* select assigning the filter fields after its await instead of before it
selectResume_EchoOnReturn(i) ==
    /\ calls[i].op = "select"
    /\ calls[i].pc = "settled"
    /\ LET w == calls[i].settled[1]
       IN  calls' = [calls EXCEPT
                       ![i].pc = "done",
                       ![i].result =
                           IF Fulfilled(w) THEN Given(w.response[1].data)
                           ELSE Given([data |-> <<>>, totalCount |-> 0,
                                       count |-> 0]),
                       ![i].logged =
                           IF Fulfilled(w) THEN @
                           ELSE Append(@, [label |-> "API Error:",
                                           detail |-> ErrorDetail(w)])]
    /\ isLoading' = FALSE
    /\ name' = IF Truthy(calls[i].args.name) THEN calls[i].args.name ELSE name
    /\ set' = IF Truthy(calls[i].args.set) THEN calls[i].args.set ELSE set
    /\ rarity' = IF Truthy(calls[i].args.rarity) THEN calls[i].args.rarity
                 ELSE rarity
    /\ type' = IF Truthy(calls[i].args.type) THEN calls[i].args.type ELSE type
    /\ UNCHANGED <<cards, NUXT_APP_BASE_URL>>

\* select falling back to the listing shape of the list actions
selectResume_ListFallback(i) == Resume(i, "select", "API Error:", [data |-> <<>>])

selectResume(i) ==
    Resume(i, "select", "API Error:", [data |-> <<>>, totalCount |-> 0, count |-> 0])

\* getSet with a catch block that does not log
getSetResume_Silent(i) ==
    /\ calls[i].op = "getSet"
    /\ calls[i].pc = "settled"
    /\ LET w == calls[i].settled[1]
       IN  calls' = [calls EXCEPT
                       ![i].pc = "done",
                       ![i].result =
                           IF Fulfilled(w) THEN Given(w.response[1].data)
                           ELSE Given([data |-> <<>>])]
    /\ isLoading' = FALSE
    /\ UNCHANGED <<cards, name, set, rarity, type, NUXT_APP_BASE_URL>>

getSetResume(i) == Resume(i, "getSet", "getSet Error:", [data |-> <<>>])

\* getRarity falling back to the page shape of select
getRarityResume_PageFallback(i) ==
    Resume(i, "getRarity", "getRarity Error:",
           [data |-> <<>>, totalCount |-> 0, count |-> 0])

getRarityResume(i) == Resume(i, "getRarity", "getRarity Error:", [data |-> <<>>])

\* getType without a catch block: a rejected request is not handled
getTypeResume_NoCatch(i) ==
    /\ Resume(i, "getType", "getType Error:", [data |-> <<>>])
    /\ Fulfilled(calls[i].settled[1])

getTypeResume(i) == Resume(i, "getType", "getType Error:", [data |-> <<>>])

-----------------------------------------------------------------------------
(* Callers *)

Chars == {"a", Space}

RECURSIVE Texts(_)
\* the texts over Chars of length at most n
Texts(n) ==
    IF n = 0 THEN {<<>>}
    ELSE LET shorter == Texts(n - 1)
         IN  shorter \cup {Append(t, c) : t \in shorter, c \in Chars}

Optional(S) == {Absent} \cup {Given(v) : v \in S}

\* the length of the text given for an argument
Size(arg) == Len(Default(arg, <<>>))

\* filter texts of the overlapping callers
FewTexts == {<<"a">>, <<"b", " ", "c">>}

\* callers that overlap: any action may start while others are in flight
Next ==
    \/ /\ Len(calls) < MaxCalls
       /\ \/ \E a_name \in Optional(FewTexts), a_type \in Optional({<<"a">>}) :
               /\ a_name = Absent \/ a_type = Absent
               /\ select(Absent, Absent, a_name, Absent, Absent, a_type)
          \/ getSet
          \/ getRarity
          \/ getType
    \/ \E i \in DOMAIN calls :
          \/ Settle(i)
          \/ selectResume(i)
          \/ getSetResume(i)
          \/ getRarityResume(i)
          \/ getTypeResume(i)

Spec == Init /\ [][Next]_vars

\* the calls of select worked out in the description of the store
Scenarios ==
    { <<Absent, Absent, Absent, Absent, Absent, Absent>>,
      <<Absent, Absent, Given(<<"p", "i", "k", "a", " ", "c", "h", "u">>),
        Absent, Absent, Absent>>,
      <<Given(2), Given(20), Absent, Absent,
        Given(<<"R", "a", "r", "e", " ", "H", "o", "l", "o">>), Absent>> }

\* one caller of select on a fresh store, with every combination of arguments
NextQuery ==
    \/ /\ Len(calls) = 0
       /\ \E s \in Scenarios : select(s[1], s[2], s[3], s[4], s[5], s[6])
    \/ /\ Len(calls) = 0
       /\ \E page \in Optional(0 .. MaxPage), pageSize \in Optional({20}) :
          \E a_name \in Optional(Texts(MaxLen)) :
          \E a_set \in Optional(Texts(MaxLen - Size(a_name))) :
          \E a_rarity \in Optional(Texts(MaxLen - Size(a_name) - Size(a_set))) :
          \E a_type \in Optional(Texts(MaxLen - Size(a_name) - Size(a_set)
                                          - Size(a_rarity))) :
               select(page, pageSize, a_name, a_set, a_rarity, a_type)
    \/ \E i \in DOMAIN calls :
          \/ Settle(i)
          \/ selectResume(i)

SpecQuery == Init /\ [][NextQuery]_vars

\* the event loop runs every handler whose request has settled, and every
\* issued request settles
Fairness ==
    \A i \in 1 .. MaxCalls :
        /\ WF_vars(i \in DOMAIN calls /\ Settle(i))
        /\ WF_vars(i \in DOMAIN calls
                   /\ (selectResume(i) \/ getSetResume(i)
                       \/ getRarityResume(i) \/ getTypeResume(i)))

\* overlapping callers as in Next, select being called without arguments
NextLive ==
    \/ /\ Len(calls) < MaxCalls
       /\ \/ select(Absent, Absent, Absent, Absent, Absent, Absent)
          \/ getSet
          \/ getRarity
          \/ getType
    \/ \E i \in DOMAIN calls :
          \/ Settle(i)
          \/ selectResume(i)
          \/ getSetResume(i)
          \/ getRarityResume(i)
          \/ getTypeResume(i)

SpecLive == Init /\ [][NextLive]_vars /\ Fairness

SpecBuild == InitBuild /\ [][Next]_vars

\* overlapping callers of select that give, omit or pass "" for the name and
\* the rarity filter
NextEcho ==
    \/ /\ Len(calls) < MaxCalls
       /\ \E a_name \in Optional({<<>>} \cup FewTexts),
             a_rarity \in Optional({<<"r">>}) :
               /\ a_name \in {Absent, Given(<<>>)} \/ a_rarity = Absent
               /\ select(Absent, Absent, a_name, Absent, a_rarity, Absent)
    \/ \E i \in DOMAIN calls :
          \/ Settle(i)
          \/ selectResume(i)

SpecEcho == Init /\ [][NextEcho]_vars

-----------------------------------------------------------------------------
(* Vocabulary of the properties *)

Invocations == DOMAIN calls

ListOps == {"getSet", "getRarity", "getType"}

InFlight(i) == calls[i].pc \in {"await", "settled"}

\* the step starts a new invocation
Starts == Len(calls') = Len(calls) + 1

\* the step resolves invocation i: its handler returns
Resolves(i) == i \in Invocations /\ calls[i].pc = "settled" /\ calls'[i].pc = "done"

\* the request of invocation i got no response at all
TransportFailure(i) == calls[i].settled # Absent /\ calls[i].settled[1].response = Absent

\* the request of invocation i got a response with a non-success status
StatusFailure(i) ==
    /\ calls[i].settled # Absent
    /\ calls[i].settled[1].response # Absent
    /\ calls[i].settled[1].response[1].status \notin 200 .. 299

\* the request of invocation i got a success status
Succeeded(i) ==
    /\ calls[i].settled # Absent
    /\ calls[i].settled[1].response # Absent
    /\ calls[i].settled[1].response[1].status \in 200 .. 299

\* the body of the response of invocation i
Body(i) == calls[i].settled[1].response[1].data

\* the value invocation i returned to its caller
Returned(i, v) == calls[i].pc = "done" /\ calls[i].result = Given(v)

EmptyPage == [data |-> <<>>, totalCount |-> 0, count |-> 0]

EmptyList == [data |-> <<>>]

-----------------------------------------------------------------------------
(* C1 *)

\* C1: when the request of a select call fails at the transport level, the
\* step in which the call returns gives the caller exactly
\* { data: [], totalCount: 0, count: 0 } (a value, not an exception) and
\* leaves isLoading false.
C1_TransportFailureStep ==
    \A i \in Invocations :
        (calls[i].op = "select" /\ TransportFailure(i) /\ Resolves(i))
            => (calls'[i].result = Given(EmptyPage) /\ isLoading' = FALSE)

C1_SearchTransportFallback == [][C1_TransportFailureStep]_vars

\* a select call whose request got no response has returned the empty page
\* and the flag is down
C1_Witness ==
    \E i \in Invocations :
        /\ calls[i].op = "select"
        /\ TransportFailure(i)
        /\ Returned(i, EmptyPage)
        /\ isLoading = FALSE

-----------------------------------------------------------------------------
(* C2 *)

\* C2: when the request of getSet, getRarity or getType fails (no response,
\* or a non-success status), the step in which the call returns gives the
\* caller exactly { data: [] } and leaves isLoading false.
C2_ListFailureStep ==
    \A i \in Invocations :
        (calls[i].op \in ListOps /\ (TransportFailure(i) \/ StatusFailure(i))
         /\ Resolves(i))
            => (calls'[i].result = Given(EmptyList) /\ isLoading' = FALSE)

C2_ListFallback == [][C2_ListFailureStep]_vars

\* two different list actions have failed, one without a response and one with
\* an error status, and both returned { data: [] }
C2_Witness ==
    /\ isLoading = FALSE
    /\ \E i, j \in Invocations :
        /\ calls[i].op \in ListOps /\ calls[j].op \in ListOps
        /\ calls[i].op # calls[j].op
        /\ TransportFailure(i) /\ Returned(i, EmptyList)
        /\ StatusFailure(j) /\ Returned(j, EmptyList)

-----------------------------------------------------------------------------
(* C3 *)

SomeResolves == \E i \in Invocations : Resolves(i)

\* C3 as stated: isLoading is true in every state in which an invocation is
\* in flight, also when invocations overlap, and false right after an
\* invocation resolves.
C3_Original ==
    /\ [](\A i \in Invocations : InFlight(i) => isLoading = TRUE)
    /\ [][SomeResolves => isLoading' = FALSE]_vars

\* C3 amended: isLoading is true right after an invocation starts and keeps
\* its value until the next start or resolution of any invocation, and it is
\* false right after an invocation resolves, on the success and the failure
\* path; so it is true during a whole invocation when no overlapping
\* invocation resolves first (in particular while nothing has resolved yet).
C3_FlagStep ==
    /\ Starts => isLoading' = TRUE
    /\ SomeResolves => isLoading' = FALSE
    /\ (~Starts /\ ~SomeResolves) => isLoading' = isLoading

C3_TrueUntilAResolution ==
    /\ []((\A j \in Invocations : calls[j].pc # "done")
            => (\A i \in Invocations : InFlight(i) => isLoading = TRUE))
    /\ [][C3_FlagStep]_vars

\* one invocation has resolved on the failure path, a later one is in flight
\* with its response pending, and the flag is up
C3_Witness ==
    \E i, j \in Invocations :
        /\ calls[i].pc = "done" /\ ~Succeeded(i)
        /\ calls[j].pc = "await"
        /\ isLoading = TRUE

-----------------------------------------------------------------------------
(* C4 *)

FallbackOf(op) == IF op = "select" THEN EmptyPage ELSE EmptyList

\* every invocation issued its request, and a resolved one returned the
\* outcome of its own request
C4_OwnOutcome ==
    \A i \in Invocations :
        /\ Len(calls[i].requests) = 1
        /\ calls[i].pc = "done" =>
              calls[i].result = IF Succeeded(i) THEN Given(Body(i))
                                ELSE Given(FallbackOf(calls[i].op))

\* a step advances one invocation and leaves the others as they are, and
\* the flag takes the value of the latest start or resolution
C4_LastTransitionWins ==
    /\ Starts => \A i \in Invocations : calls'[i] = calls[i]
    /\ \A i \in Invocations :
          calls'[i] # calls[i] => \A j \in Invocations \ {i} : calls'[j] = calls[j]
    /\ isLoading' = IF Starts THEN TRUE
                    ELSE IF SomeResolves THEN FALSE ELSE isLoading

\* C4: overlapping invocations are neither serialized nor cancelled: an
\* action can start while others are in flight, a start or resolution leaves
\* every other invocation untouched, every invocation issues its request and
\* resolves with the outcome of its own request, and isLoading holds the
\* value written by the most recent start or resolution.
C4_Overlap ==
    /\ [](Len(calls) < MaxCalls => ENABLED getSet)
    /\ []C4_OwnOutcome
    /\ [][C4_LastTransitionWins]_vars

\* two invocations overlapped: the first resolved with its own failure while
\* the second, started before that, is still in flight with a successful
\* response, and the flag is down
C4_Witness ==
    \E i, j \in Invocations :
        /\ i < j
        /\ calls[i].pc = "done" /\ ~Succeeded(i)
        /\ calls[i].result = Given(FallbackOf(calls[i].op))
        /\ calls[j].pc = "settled" /\ Succeeded(j)
        /\ isLoading = FALSE

-----------------------------------------------------------------------------
(* C5 *)

\* the response of invocation i has a success status and a body that is
\* neither a page nor a listing
MalformedPayload(i) == Succeeded(i) /\ "data" \notin DOMAIN Body(i)

\* C5: transport failure, non-success status and malformed payload all end
\* in the same outcome for every action: one diagnostic logged and the empty
\* fallback returned; a malformed payload is never returned to the caller.
C5_AllFailuresFallBack ==
    \A i \in Invocations :
        (calls[i].pc = "done"
         /\ (TransportFailure(i) \/ StatusFailure(i) \/ MalformedPayload(i)))
            => /\ calls[i].result = Given(FallbackOf(calls[i].op))
               /\ Len(calls[i].logged) = 1

-----------------------------------------------------------------------------
(* C6 *)

\* C6: when the request of select or of a list action succeeds, the action
\* returns exactly the body of the response to that request: the same cards
\* in the same order and the same counts.
C6_SuccessReturnsPayload ==
    \A i \in Invocations :
        (calls[i].pc = "done" /\ Succeeded(i)) => calls[i].result = Given(Body(i))

\* a select call returned a page of two cards as the API sent it, and a list
\* action returned its listing
C6_Witness ==
    \E i, j \in Invocations :
        /\ calls[i].op = "select" /\ Succeeded(i)
        /\ Returned(i, [data |-> <<"xy7-54", "base1-4">>, totalCount |-> 7, count |-> 2])
        /\ calls[j].op \in ListOps /\ Succeeded(j)
        /\ Returned(j, [data |-> <<"Rare Holo", "Common">>])

-----------------------------------------------------------------------------
(* Vocabulary of the query properties *)

Searches == {i \in Invocations : calls[i].op = "select"}

Filters == <<"name", "set", "rarity", "type">>

\* the field prefix of a filter in the query language of the remote API
FieldPrefix(f) ==
    CASE f = "name" -> <<"n", "a", "m", "e", ":">>
      [] f = "set" -> <<"s", "e", "t", ".", "n", "a", "m", "e", ":">>
      [] f = "rarity" -> <<"r", "a", "r", "i", "t", "y", ":">>
      [] f = "type" -> <<"t", "y", "p", "e", "s", ":">>

\* the filters a select call was given a non-empty value for, in the order
\* name, set, rarity, type
Specified(i) == SelectSeq(Filters, LAMBDA f : calls[i].args[f] # <<>>)

\* the path of the request of invocation i
PathOf(i) == calls[i].requests[1].path

\* the positions at which p occurs in s
Occurrences(p, s) ==
    {k \in 1 .. Len(s) - Len(p) + 1 : SubSeq(s, k, k + Len(p) - 1) = p}

\* the pagination part every select path starts with
Pagination(i) ==
    <<"/", "c", "a", "r", "d", "s", "?">>
    \o <<"p", "a", "g", "e", "=">> \o NumberToString(calls[i].args.page)
    \o <<"&", "p", "a", "g", "e", "S", "i", "z", "e", "=">>
    \o NumberToString(calls[i].args.pageSize) \o <<"&">>

\* the value of the q parameter of the request of invocation i
QValue(i) == SubSeq(PathOf(i), Len(Pagination(i)) + 3, Len(PathOf(i)))

-----------------------------------------------------------------------------
(* C7 *)

\* C7: for every combination of the four filters of a select call, the
\* clauses pushed for the query contain a clause with a field's prefix only
\* if that filter has a non-empty value, and never a clause with an empty
\* value (name:*, set.name:*, rarity:*, types:).
C7_NoClauseForEmptyFilter ==
    \A i \in Searches :
        \A k \in DOMAIN calls[i].pathQuery :
            LET clause == calls[i].pathQuery[k]
            IN  /\ \A n \in DOMAIN Filters :
                      IsPrefix(FieldPrefix(Filters[n]), clause)
                          => calls[i].args[Filters[n]] # <<>>
                /\ clause \notin {FieldPrefix("name") \o <<"*">>,
                                  FieldPrefix("set") \o <<"*">>,
                                  FieldPrefix("rarity") \o <<"*">>,
                                  FieldPrefix("type")}

\* a select call with a name and a type but an empty set and rarity pushed
\* exactly two clauses
C7_Witness ==
    \E i \in Searches :
        /\ calls[i].args.name # <<>> /\ calls[i].args.type # <<>>
        /\ calls[i].args.set = <<>> /\ calls[i].args.rarity = <<>>
        /\ Len(calls[i].pathQuery) = 2

-----------------------------------------------------------------------------
(* C8 *)

\* C8: the path of a select call with all four filters empty or absent is
\* the pagination part alone, with no q parameter; with at least one
\* non-empty filter the pagination part is followed by exactly one q
\* parameter, whose value holds every clause.
C8_QOnlyWhenFiltered ==
    \A i \in Searches :
        /\ IsPrefix(Pagination(i), PathOf(i))
        /\ IF Specified(i) = <<>>
           THEN /\ PathOf(i) = Pagination(i)
                /\ Occurrences(<<"q", "=">>, PathOf(i)) = {}
           ELSE /\ Occurrences(<<"q", "=">>, PathOf(i)) = {Len(Pagination(i)) + 1}
                /\ \A k \in DOMAIN calls[i].pathQuery :
                      Occurrences(calls[i].pathQuery[k], QValue(i)) # {}

\* one select call without any filter has been issued with the bare
\* pagination path
C8_Witness ==
    \E i \in Searches :
        /\ Specified(i) = <<>>
        /\ PathOf(i) = Pagination(i)
        /\ calls[i].pc = "done"

-----------------------------------------------------------------------------
(* C9 *)

RECURSIVE Glued(_)
\* the clauses written one after the other with " AND " between neighbours
Glued(clauses) ==
    IF Len(clauses) = 0 THEN <<>>
    ELSE IF Len(clauses) = 1 THEN clauses[1]
    ELSE Glued(SubSeq(clauses, 1, Len(clauses) - 1))
         \o <<" ", "A", "N", "D", " ">> \o clauses[Len(clauses)]

\* C9: for every subset of specified filters, q holds one clause per
\* specified filter, in the order name, set, rarity, type, each starting
\* with the prefix of its field (name:, set.name:, rarity:, types:), and
\* neighbouring clauses are separated by exactly " AND ".
C9_ClauseOrder ==
    \A i \in Searches :
        /\ Len(calls[i].pathQuery) = Len(Specified(i))
        /\ \A k \in DOMAIN calls[i].pathQuery :
              IsPrefix(FieldPrefix(Specified(i)[k]), calls[i].pathQuery[k])
        /\ Specified(i) # <<>> => QValue(i) = Glued(calls[i].pathQuery)

\* a select call with all four filters sent four clauses in the fixed order
C9_Witness ==
    \E i \in Searches :
        /\ Specified(i) = Filters
        /\ Len(calls[i].pathQuery) = 4
        /\ Cardinality(Occurrences(<<" ", "A", "N", "D", " ">>, QValue(i))) = 3

-----------------------------------------------------------------------------
(* C10 *)

\* C10: for every non-empty filter value, the clause of name, set and rarity
\* is the prefix, the transformed value (as long as the value) and one final
\* `*`; the clause of type is the prefix and the transformed value, with
\* nothing after it.
C10_TrailingWildcard ==
    \A i \in Searches :
        \A k \in DOMAIN Specified(i) :
            LET f == Specified(i)[k]
                clause == calls[i].pathQuery[k]
                body == Len(FieldPrefix(f)) + Len(calls[i].args[f])
            IN  IF f = "type"
                THEN Len(clause) = body
                ELSE Len(clause) = body + 1 /\ clause[Len(clause)] = "*"

\* a select call with a rarity and a type: the rarity clause ends with the
\* added `*`, the type clause ends with the last character of the type
C10_Witness ==
    \E i \in Searches :
        /\ Specified(i) = <<"rarity", "type">>
        /\ calls[i].args.type = <<"a", "a">>
        /\ calls[i].pathQuery[1][Len(calls[i].pathQuery[1])] = "*"
        /\ calls[i].pathQuery[2] = <<"t", "y", "p", "e", "s", ":", "a", "a">>

-----------------------------------------------------------------------------
(* C11 *)

\* the part of the k-th clause of invocation i that follows the field prefix
\* and has the length of the filter's value
Transmitted(i, k) ==
    LET f == Specified(i)[k]
    IN  SubSeq(calls[i].pathQuery[k], Len(FieldPrefix(f)) + 1,
               Len(FieldPrefix(f)) + Len(calls[i].args[f]))

\* C11: for every non-empty value of any of the four filters, the clause
\* carries the value with every space replaced by one `*` and every other
\* character kept in its place: the transmitted value has the length of the
\* input and contains no space; name "pika chu" gives name:pika*chu*.
C11_SpacesBecomeWildcards ==
    \A i \in Searches :
        /\ \A k \in DOMAIN Specified(i) :
              LET value == calls[i].args[Specified(i)[k]]
                  sent == Transmitted(i, k)
              IN  /\ Len(sent) = Len(value)
                  /\ \A n \in DOMAIN value :
                        sent[n] = IF value[n] = " " THEN "*" ELSE value[n]
                  /\ \A n \in DOMAIN sent : sent[n] # " "
        /\ calls[i].args.passed[3] = Given(<<"p", "i", "k", "a", " ", "c", "h", "u">>)
              => calls[i].pathQuery[1] =
                    <<"n", "a", "m", "e", ":", "p", "i", "k", "a", "*", "c", "h", "u", "*">>

\* a select call was given a set with two spaces and sent both as `*`
C11_Witness ==
    \E i \in Searches :
        /\ calls[i].args.set = <<"a", " ", " ", "a">>
        /\ calls[i].pathQuery =
              << <<"s", "e", "t", ".", "n", "a", "m", "e", ":", "a", "*", "*", "a", "*">> >>

-----------------------------------------------------------------------------
(* C12 *)

\* the decimal text of the page numbers and page sizes callers pass
Decimal(n) ==
    CASE n = 0 -> <<"0">>
      [] n = 1 -> <<"1">>
      [] n = 2 -> <<"2">>
      [] n = 3 -> <<"3">>
      [] n = 4 -> <<"4">>
      [] n = 20 -> <<"2", "0">>

\* the value an argument stands for: the one passed, or d when it was omitted
Passed(arg, d) == IF arg = <<>> THEN d ELSE arg[1]

\* C12: the path of every select call is /cards? followed by
\* page=<page>&pageSize=<pageSize>& built from the arguments, each 0 when
\* omitted and sent also when 0, followed by q=<clauses> only when a filter
\* was given a non-empty value; select() gives page=0&pageSize=0& and
\* select(2, 20, rarity "Rare Holo") gives
\* page=2&pageSize=20&q=rarity:Rare*Holo*.
C12_PaginationThenQ ==
    \A i \in Searches :
        LET a == calls[i].args.passed
            pagination ==
                <<"/", "c", "a", "r", "d", "s", "?", "p", "a", "g", "e", "=">>
                \o Decimal(Passed(a[1], 0))
                \o <<"&", "p", "a", "g", "e", "S", "i", "z", "e", "=">>
                \o Decimal(Passed(a[2], 0)) \o <<"&">>
            filtered == \E k \in 3 .. 6 : Passed(a[k], <<>>) # <<>>
            path == PathOf(i)
        IN  /\ IsPrefix(pagination, path)
            /\ IF filtered
               THEN /\ Len(path) > Len(pagination) + 2
                    /\ SubSeq(path, Len(pagination) + 1, Len(pagination) + 2)
                          = <<"q", "=">>
               ELSE path = pagination
            /\ a = <<<<>>, <<>>, <<>>, <<>>, <<>>, <<>>>>
                  => path = <<"/", "c", "a", "r", "d", "s", "?",
                              "p", "a", "g", "e", "=", "0", "&",
                              "p", "a", "g", "e", "S", "i", "z", "e", "=", "0", "&">>
            /\ a = <<<<2>>, <<20>>, <<>>, <<>>,
                     << <<"R", "a", "r", "e", " ", "H", "o", "l", "o">> >>, <<>>>>
                  => path = <<"/", "c", "a", "r", "d", "s", "?",
                              "p", "a", "g", "e", "=", "2", "&",
                              "p", "a", "g", "e", "S", "i", "z", "e", "=", "2", "0", "&",
                              "q", "=", "r", "a", "r", "i", "t", "y", ":",
                              "R", "a", "r", "e", "*", "H", "o", "l", "o", "*">>

\* select(2, 20, rarity "Rare Holo") has been issued
C12_Witness ==
    \E i \in Searches :
        /\ calls[i].args.passed[1] = <<2>> /\ calls[i].args.passed[2] = <<20>>
        /\ calls[i].args.passed[5] = << <<"R", "a", "r", "e", " ", "H", "o", "l", "o">> >>
        /\ Len(PathOf(i)) = 45
        /\ Occurrences(<<"q", "=">>, PathOf(i)) = {27}

-----------------------------------------------------------------------------
(* C13 *)

\* the ServiceState field that echoes a filter
Echo(f) ==
    CASE f = "name" -> name
      [] f = "set" -> set
      [] f = "rarity" -> rarity
      [] f = "type" -> type

\* the text passed to invocation i for the n-th filter ("" when omitted)
RawFilter(i, n) == Passed(calls[i].args.passed[n + 2], <<>>)

\* C13: for a select call and every filter it was given a non-empty value
\* for, the ServiceState field of that filter holds the value as passed
\* (spaces kept, no wildcard) from the start of the call on: while the
\* request is pending, once it has settled and after the call has returned,
\* on success and on failure.
C13_EchoHoldsRawValue ==
    \A i \in Searches :
        \A n \in DOMAIN Filters :
            RawFilter(i, n) # <<>> => Echo(Filters[n]) = RawFilter(i, n)

\* a select call given a name and a rarity with spaces has failed and
\* returned, and both fields hold the texts as passed
C13_Witness ==
    \E i \in Searches :
        /\ calls[i].pc = "done" /\ ~Succeeded(i)
        /\ RawFilter(i, 1) = <<"a", " ">> /\ name = <<"a", " ">>
        /\ RawFilter(i, 3) = <<" ", "a">> /\ rarity = <<" ", "a">>

\* the same after a successful request
C13_WitnessSuccess ==
    \E i \in Searches :
        /\ calls[i].pc = "done" /\ Succeeded(i)
        /\ RawFilter(i, 4) = <<"a", " ", "a">> /\ type = <<"a", " ", "a">>

-----------------------------------------------------------------------------
(* C14 *)

\* C14: every request issued by select, getSet, getRarity or getType carries
\* the header X-Api-Key with the API key of the configuration; no request is
\* issued without it.
C14_EveryRequestCarriesKey ==
    \A i \in Invocations :
        \A k \in DOMAIN calls[i].requests :
            calls[i].requests[k].headers.XApiKey # <<>>

-----------------------------------------------------------------------------
(* C15 *)

\* the request of invocation i was rejected: no response or a non-success
\* status
Rejected(i) == TransportFailure(i) \/ StatusFailure(i)

\* a step adds no request to a started invocation, and the step that follows
\* a rejected request returns the fallback
C15_FailureResolves ==
    \A i \in Invocations :
        /\ calls'[i].requests = calls[i].requests
        /\ (calls[i].pc = "settled" /\ Rejected(i) /\ calls'[i] # calls[i])
              => /\ calls'[i].pc = "done"
                 /\ calls'[i].result = Given(FallbackOf(calls[i].op))

\* C15: no action retries: an invocation issues one request and never
\* another, and when that request fails the next step of the invocation
\* returns the empty fallback.
C15_NoRetry ==
    /\ [](\A i \in Invocations : Len(calls[i].requests) <= 1)
    /\ [][C15_FailureResolves]_vars

\* an invocation whose only request was rejected has returned its fallback
C15_Witness ==
    \E i \in Invocations :
        /\ Rejected(i)
        /\ Len(calls[i].requests) = 1
        /\ Returned(i, FallbackOf(calls[i].op))

-----------------------------------------------------------------------------
(* C16 *)

\* the label each action puts in front of its diagnostic
LabelOf(op) ==
    CASE op = "select" -> "API Error:"
      [] op = "getSet" -> "getSet Error:"
      [] op = "getRarity" -> "getRarity Error:"
      [] op = "getType" -> "getType Error:"

\* C16: a call whose request failed (no response, or a non-success status)
\* has sent exactly one diagnostic, labelled with its action, to the log sink
\* when it returns its fallback; a call in flight has sent none yet and a
\* call whose request succeeded sends none.
C16_OneDiagnosticPerFailure ==
    \A i \in Invocations :
        /\ InFlight(i) => calls[i].logged = <<>>
        /\ (calls[i].pc = "done" /\ Succeeded(i)) => calls[i].logged = <<>>
        /\ (calls[i].pc = "done" /\ Rejected(i))
              => /\ Len(calls[i].logged) = 1
                 /\ calls[i].logged[1].label = LabelOf(calls[i].op)
                 /\ calls[i].result = Given(FallbackOf(calls[i].op))

\* a list action has failed and logged once, and a select call has succeeded
\* and logged nothing
C16_Witness ==
    \E i, j \in Invocations :
        /\ calls[i].op \in ListOps /\ calls[i].pc = "done" /\ Rejected(i)
        /\ Len(calls[i].logged) = 1
        /\ calls[j].op = "select" /\ calls[j].pc = "done" /\ Succeeded(j)
        /\ calls[j].logged = <<>>

-----------------------------------------------------------------------------
(* C17 *)

\* the step starts a select call
SelectStarts == Starts /\ calls'[Len(calls')].op = "select"

\* the step settles the request of a select call or resumes its handler
SelectContinues == \E i \in Searches : calls'[i] # calls[i]

\* C17 as stated: a select call changes no ServiceState field other than
\* isLoading.
C17_Original ==
    [][(SelectStarts \/ SelectContinues)
          => UNCHANGED <<cards, name, set, rarity, type>>]_vars

\* the fields a starting select call may write: those of the filters it was
\* given a non-empty value for
C17_StartFrame ==
    SelectStarts =>
        /\ cards' = cards
        /\ isLoading' = TRUE
        /\ \A n \in DOMAIN Filters :
              LET raw == Passed(calls'[Len(calls')].args.passed[n + 2], <<>>)
              IN  Echo(Filters[n])' = IF raw # <<>> THEN raw ELSE Echo(Filters[n])

\* C17 amended: a select call changes no ServiceState field other than
\* isLoading and the echo fields of the filters it was given a non-empty
\* value for: its start sets isLoading and writes those echoes, the rest of
\* the call only clears isLoading; cards and the echoes of the other filters
\* stay as they are.
C17_OnlyFlagAndGivenEchoes ==
    [][/\ C17_StartFrame
       /\ SelectContinues => UNCHANGED <<cards, name, set, rarity, type>>]_vars

\* after a select call with a type, a second one with only a name has
\* returned: name changed, type kept
C17_Witness ==
    \E i, j \in Searches :
        /\ i < j
        /\ RawFilter(i, 4) = <<"a">> /\ RawFilter(j, 4) = <<>>
        /\ RawFilter(i, 1) = <<>> /\ RawFilter(j, 1) = <<"b", " ", "c">>
        /\ calls[j].pc = "done"
        /\ name = <<"b", " ", "c">> /\ type = <<"a">>
        /\ cards = <<>>

-----------------------------------------------------------------------------
(* C18 *)

\* C18: app.baseURL is the value of NUXT_APP_BASE_URL when the variable is
\* set and "/" when it is not.
C18_BaseURLFromEnvironment ==
    baseURL(NUXT_APP_BASE_URL) = Passed(NUXT_APP_BASE_URL, "/")

-----------------------------------------------------------------------------
(* C19 *)

NoneInFlight == \A i \in Invocations : ~InFlight(i)

\* invocation i has returned a value to its caller
HasReturned(i) ==
    i \in Invocations /\ calls[i].pc = "done" /\ calls[i].result # <<>>

\* C19: when every issued request settles, every started invocation
\* eventually returns a value, and when no invocation is in flight
\* isLoading becomes false and stays false until the next start.
C19_EveryCallResolves ==
    /\ \A i \in 1 .. MaxCalls : (i \in Invocations) ~> HasReturned(i)
    /\ NoneInFlight ~> (isLoading = FALSE)
    /\ [][(NoneInFlight /\ isLoading = FALSE /\ ~Starts)
             => isLoading' = FALSE]_vars

\* every started invocation has returned, one of them a getType call whose
\* request failed, and the flag is down
C19_Witness ==
    /\ Len(calls) = MaxCalls
    /\ \A i \in Invocations : calls[i].pc = "done" /\ calls[i].result # <<>>
    /\ \E i \in Invocations : calls[i].op = "getType" /\ Rejected(i)
    /\ isLoading = FALSE

-----------------------------------------------------------------------------
(* C20 *)

\* C20: in every reachable state, whatever the interleaving of overlapping
\* invocations, isLoading = true implies that an invocation is in flight.
C20_LoadingImpliesInFlight ==
    isLoading = TRUE => \E i \in Invocations : InFlight(i)

\* the flag is up while one invocation has returned and a later one is in
\* flight
C20_Witness ==
    /\ isLoading = TRUE
    /\ \E i, j \in Invocations : i < j /\ calls[i].pc = "done" /\ InFlight(j)

-----------------------------------------------------------------------------
(* C21 *)

\* C21: in every reachable state in which no invocation is in flight (the
\* initial state, and every state in which all started invocations have
\* returned, whatever their order and outcomes), isLoading is false.
C21_IdleImpliesNotLoading ==
    (\A i \in Invocations : calls[i].pc = "done") => isLoading = FALSE

\* two invocations have both returned, one on the success path and one on
\* the failure path, and the flag is down
C21_Witness ==
    /\ isLoading = FALSE
    /\ \A i \in Invocations : calls[i].pc = "done"
    /\ \E i, j \in Invocations :
          /\ Succeeded(i) /\ calls[i].result = Given(Body(i))
          /\ Rejected(j) /\ calls[j].result = Given(FallbackOf(calls[j].op))

-----------------------------------------------------------------------------
(* C22 *)

\* the select calls started after invocation i
LaterSearches(i) == {j \in Searches : j > i}

\* a starting select call leaves the echo of every filter it was given no
\* value or "" for as it is, and no step empties an echo that holds a value
C22_EchoStep ==
    /\ SelectStarts =>
          \A n \in DOMAIN Filters :
              Passed(calls'[Len(calls')].args.passed[n + 2], <<>>) = <<>>
                  => Echo(Filters[n])' = Echo(Filters[n])
    /\ \A n \in DOMAIN Filters :
          Echo(Filters[n]) # <<>> => Echo(Filters[n])' # <<>>

\* after select with name n, followed only by select calls with no name or
\* "", the field name is n although those calls sent no name clause
C22_NameSurvives ==
    \A i \in Searches :
        (RawFilter(i, 1) # <<>> /\ \A j \in LaterSearches(i) : RawFilter(j, 1) = <<>>)
            => /\ name = RawFilter(i, 1)
               /\ \A j \in LaterSearches(i) :
                     \A k \in DOMAIN calls[j].pathQuery :
                         ~IsPrefix(FieldPrefix("name"), calls[j].pathQuery[k])

\* C22: a select call leaves the echo of every unspecified (empty) filter
\* unchanged; echoes are never reset, so a filter field that holds a
\* non-empty value is non-empty in every later state, and after select with
\* name n followed by select with an empty name the field name still equals
\* n although the latest query had no name clause.
C22_EchoesNeverReset == []C22_NameSurvives /\ [][C22_EchoStep]_vars

\* select with a name has returned, then select with name "" and a rarity
\* has returned: name is still the first call's, and the second call's query
\* was the rarity clause alone
C22_Witness ==
    \E i, j \in Searches :
        /\ i < j
        /\ calls[i].pc = "done" /\ calls[j].pc = "done"
        /\ RawFilter(i, 1) = <<"b", " ", "c">>
        /\ calls[j].args.passed[3] = Given(<<>>)
        /\ RawFilter(j, 3) = <<"r">>
        /\ calls[j].pathQuery = <<FieldPrefix("rarity") \o <<"r", "*">>>>
        /\ name = <<"b", " ", "c">> /\ rarity = <<"r">>

-----------------------------------------------------------------------------
(* C23 *)

\* the select calls started so far that were given a non-empty value for the
\* n-th filter
Specifying(n) == {i \in Searches : RawFilter(i, n) # <<>>}

\* the greatest element of a non-empty set of invocations
Latest(S) == CHOOSE i \in S : \A j \in S : j <= i

\* each filter field holds the raw value of the most recently started select
\* call that specified the filter, whatever has settled or returned since
C23_LatestStartWins ==
    \A n \in DOMAIN Filters :
        Echo(Filters[n]) = IF Specifying(n) = {} THEN <<>>
                           ELSE RawFilter(Latest(Specifying(n)), n)

\* the step in which a select call starts writes the echoes of its filters
\* and leaves its request pending; the settling of a request and the return
\* of a call write no echo
C23_WrittenAtStart ==
    /\ SelectStarts =>
          /\ calls'[Len(calls')].pc = "await"
          /\ \A n \in DOMAIN Filters :
                LET raw == Passed(calls'[Len(calls')].args.passed[n + 2], <<>>)
                IN  raw # <<>> => Echo(Filters[n])' = raw
    /\ ~SelectStarts => UNCHANGED <<name, set, rarity, type>>

\* C23: filter echoes are written when a select call starts, before its
\* request is issued and independently of when it resolves: with
\* overlapping calls each filter field equals the raw value given by the
\* most recently started call that specified that filter, even when an
\* earlier-started call resolves last.
C23_EchoOfLatestStart == []C23_LatestStartWins /\ [][C23_WrittenAtStart]_vars

\* two overlapping select calls with different names: the later-started one
\* has returned, the earlier-started one is still to return, and name is the
\* later one's
C23_Witness ==
    \E i, j \in Searches :
        /\ i < j
        /\ RawFilter(i, 1) = <<"a">> /\ RawFilter(j, 1) = <<"b", " ", "c">>
        /\ calls[i].pc = "settled" /\ calls[j].pc = "done"
        /\ name = <<"b", " ", "c">>

-----------------------------------------------------------------------------
(* C24 *)

\* the step starts a call of getSet, getRarity or getType
ListStarts == Starts /\ calls'[Len(calls')].op \in ListOps

\* the step settles the request of a list call or resumes its handler
ListContinues ==
    \E i \in Invocations : calls[i].op \in ListOps /\ calls'[i] # calls[i]

\* C24: getSet, getRarity and getType change no ServiceState field other
\* than isLoading: name, set, rarity, type and cards are the same after
\* every step of such a call as before it, on success and on failure.
C24_ListOpsFrame ==
    [][(ListStarts \/ ListContinues)
          => UNCHANGED <<cards, name, set, rarity, type>>]_vars

\* after select with a name, a list call has started and returned the
\* listing of the remote API, and name and cards are as select left them
C24_Witness ==
    \E i, j \in Invocations :
        /\ i < j
        /\ calls[i].op = "select" /\ RawFilter(i, 1) = <<"b", " ", "c">>
        /\ calls[j].op \in ListOps /\ calls[j].pc = "done" /\ Succeeded(j)
        /\ name = <<"b", " ", "c">> /\ cards = <<>>
        /\ isLoading = FALSE

-----------------------------------------------------------------------------
(* C25 *)

\* C25: the cards field of the store is the empty list in every reachable
\* state: no action writes it, and a select call whose request succeeded has
\* handed the page to its caller, not to the store.
C25_CardsAlwaysEmpty ==
    /\ cards = <<>>
    /\ \A i \in Searches :
          (calls[i].pc = "done" /\ Succeeded(i))
              => calls[i].result = Given(Body(i))

\* a select call has returned a page of two cards to its caller and the
\* cards field is still empty
C25_Witness ==
    \E i \in Searches :
        /\ calls[i].pc = "done" /\ Succeeded(i)
        /\ calls[i].result = Given([data |-> <<"xy7-54", "base1-4">>,
                                    totalCount |-> 7, count |-> 2])
        /\ cards = <<>>

=============================================================================
